---------------------------- MODULE Spec2Model ----------------------------
(***************************************************************************)
(* Session-token authentication service (src/main.py): register, login,    *)
(* signout and the require_session guard of the protected route, run by    *)
(* concurrent request handlers over one shared "users" collection.         *)
(*                                                                         *)
(* A handler suspends only at its awaits on the store, so every store call *)
(* (find_one, insert_one, update_one) is one atomic step; the local code   *)
(* that follows a call runs in the same step as the call. The handlers     *)
(* suspended at an await form a bag of frames: any number of requests may  *)
(* be in flight, and two of them may hold the same locals.                 *)
(***************************************************************************)
EXTENDS Naturals, Sequences, FiniteSets, Bags, TLC

(* ------------------------------ bounds -------------------------------- *)
\* requests the clients send during a run
MaxRequests == 5
\* how often the clock is advanced during a run of SpecClock
MaxTicks == 1

Usernames == {"alice", "bob"}
Passwords == {"pw123", "other"}
Salts == {"salt1"}

(* ------------------------------ values -------------------------------- *)
\* Python's None; an optional value v is {v}
None == {}
Some(v) == {v}

\* settings.SESSION_TOKEN_TTL_DAYS
SESSION_TOKEN_TTL_DAYS == 30

\* dict.get(key): the field's value, None for a field the document lacks
Get(doc, key) == IF key \in DOMAIN doc THEN doc[key] ELSE None

\* a uuid4 that returns a value it has returned before
Uuid4Hex_Wraps(n) == "tok" \o ToString(n % 2)

\* uuid4 replaced by a generator that repeats itself
Uuid4Hex_Repeats(n) == "tok"

\* the n-th value uuid4().hex returns: never empty, never returned twice
Uuid4Hex(n) == "tok" \o ToString(n)

\* str.lower() on the scheme words a client sends
Lower(s) ==
    CASE s = "Session" -> "session"
      [] s = "SESSION" -> "session"
      [] s = "Bearer" -> "bearer"
      [] OTHER -> s

\* A header value is the sequence of its pieces: the text before the first
\* space, then (when there is a space) the space and the text after it.
\* str.partition(" ") returns <<head, sep, tail>>
Partition(h) ==
    IF Len(h) >= 2 /\ h[2] = " "
    THEN <<h[1], " ", IF Len(h) >= 3 THEN h[3] ELSE "">>
    ELSE <<IF Len(h) >= 1 THEN h[1] ELSE "", "", "">>

(* --------------------------- password hashing -------------------------- *)
\* the digest bcrypt_sha256 computes of a password under a salt
Digest(salt, password) == <<salt, password>>

hash_password(password, salt) ==
    [scheme |-> "bcrypt_sha256", salt |-> salt, digest |-> Digest(salt, password)]

verify_password(plain, hashed) ==
    hashed.scheme = "bcrypt_sha256" /\ hashed.digest = Digest(hashed.salt, plain)


(* ------------------------------- state -------------------------------- *)
VARIABLES
    users,    \* db["users"]: the documents in insertion order, _id = position
    frames,   \* the bag of handlers suspended at an await, with their locals
    nreq,     \* how many requests have been sent
    ntok,     \* how many values uuid4 has returned
    now,      \* datetime.utcnow(), in days; Spec holds the clock still,
              \*   SpecClock advances it
    resp,     \* the response the last step sent (NoResp when it sent none)
    signedOut,\* history: tokens a successful signout presented
    live,     \* history: <<token, username>> a login stored for a user that
              \*   was not disabled, with no login update, signout update or
              \*   disabling of that user since
    order,    \* history: per _id, the tokens login stored, in store order
    raced     \* history: <<t1, t2>>, t1 stored while the login that made t2
              \*   for the same user was suspended before its own update

vars == <<users, frames, nreq, ntok, now, resp, signedOut, live, order, raced>>

NoResp == [op |-> "none"]

Ids == 1..Len(users)
Frames == BagToSet(frames)
Suspend(f) == frames (+) SetToBag({f})
Resume(f) == frames (-) SetToBag({f})

(* --------------------------- store adapter ---------------------------- *)
\* find_one(filter) returns the first matching document in natural order
First(hits) == CHOOSE i \in hits : \A j \in hits : i <= j

\* find_one({"username": username}); None when no document matches
get_user_doc_by_username(username) ==
    LET hits == {i \in 1..Len(users) : Get(users[i], "username") = username}
    IN  IF hits = {} THEN None ELSE Some(users[First(hits)])

\* find_one({"session_token": token}); None for an empty token
get_user_doc_by_token(token) ==
    LET hits == {i \in 1..Len(users) : Get(users[i], "session_token") = Some(token)}
    IN  IF token = "" THEN None
        ELSE IF hits = {} THEN None ELSE Some(users[First(hits)])

\* the unique index on username: whether insert_one(doc) is accepted
UniqueIndexAllows(coll, doc) ==
    \A i \in 1..Len(coll) : coll[i].username # doc.username

\* an update that only adds fields a document lacks
UpdateOne_AddOnly(coll, id, set_, unset) ==
    [i \in 1..Len(coll) |->
        IF coll[i]._id # id THEN coll[i]
        ELSE LET d == coll[i]
                 keys == (DOMAIN d \cup DOMAIN set_) \ unset
             IN  [k \in keys |-> IF k \in DOMAIN d THEN d[k] ELSE set_[k]]]

\* an update applied to every document of the collection
UpdateOne_Many(coll, id, set_, unset) ==
    [i \in 1..Len(coll) |->
        LET d == coll[i]
            keys == (DOMAIN d \cup DOMAIN set_) \ unset
        IN  [k \in keys |-> IF k \in DOMAIN set_ THEN set_[k] ELSE d[k]]]

\* update_one({"_id": id}, {"$set": set_, "$unset": unset})
UpdateOne(coll, id, set_, unset) ==
    [i \in 1..Len(coll) |->
        IF coll[i]._id # id THEN coll[i]
        ELSE LET d == coll[i]
                 keys == (DOMAIN d \cup DOMAIN set_) \ unset
             IN  [k \in keys |-> IF k \in DOMAIN set_ THEN set_[k] ELSE d[k]]]

\* a document created already logged in
NewUserDoc_LoggedIn(id, payload, salt, created_at) ==
    [_id |-> id,
     username |-> payload.username,
     hashed_password |-> Some(hash_password(payload.password, salt)),
     full_name |-> payload.full_name,
     disabled |-> FALSE,
     logged_in |-> TRUE,
     session_token |-> None,
     session_expires_at |-> None,
     created_at |-> Some(created_at)]

\* The document create_user_doc builds for a RegisterIn payload
NewUserDoc(id, payload, salt, created_at) ==
    [_id |-> id,
     username |-> payload.username,
     hashed_password |-> Some(hash_password(payload.password, salt)),
     full_name |-> payload.full_name,
     disabled |-> FALSE,
     logged_in |-> FALSE,
     session_token |-> None,
     session_expires_at |-> None,
     created_at |-> Some(created_at)]

\* UserOut(...) as register and require_session build it
UserOut(doc, logged_in) ==
    [id |-> doc._id, username |-> doc.username,
     full_name |-> Get(doc, "full_name"), logged_in |-> logged_in]

HTTPException(status, detail) == [status |-> status, detail |-> detail]

(* ------------------------------ requests ------------------------------ *)
\* the one element of a non-None optional value
The(opt) == CHOOSE v \in opt : TRUE

\* a string uuid4 never returns
Forged == Uuid4Hex(0)
Issued == {Uuid4Hex(n) : n \in 1..ntok}
\* what a client can put after the scheme: nothing, a token uuid4 has
\* returned so far, or a forged one
Presentable == {"", Forged} \cup Issued
Headers ==
    {None, Some(<<"Session">>)}
        \cup {Some(<<s, " ", t>>) : s \in {"Session", "SESSION", "Bearer"}, t \in Presentable}
RegisterIns ==
    {[username |-> u, password |-> p,
      full_name |-> IF p = "pw123" THEN Some("Full Name") ELSE None] :
        u \in Usernames, p \in Passwords}
LoginIns == [username : Usernames, password : Passwords]

\* the header "Session <token>"
Session(token) == Some(<<"Session", " ", token>>)

Reply(op, status, body) == [op |-> op, status |-> status, body |-> body]
Detail(text) == [detail |-> text]
Raise(op, err) == Reply(op, The(err).status, Detail(The(err).detail))

\* the pairs of live that belong to another user than username
LiveOfOthers(username) == {p \in live : p[2] # username}

\* a client sends one more request
Send ==
    /\ nreq < MaxRequests
    /\ nreq' = nreq + 1

\* the disabled test of login and require_session
IsDisabled_Never(doc) == FALSE

IsDisabled(doc) == Get(doc, "disabled") = TRUE

\* register without its lookup of the username
RegisterCheck_Never(user) == None

\* register's check of the looked-up document: the error raised, None to go on
RegisterCheck(user) ==
    LET existing == get_user_doc_by_username(user.username)
    IN  IF existing # None
        THEN Some(HTTPException(400, "Username already exists"))
        ELSE None

(* register, up to its await on create_user_doc's insert_one: the hash and *)
(* created_at of the document are computed before the await                *)
RegisterLookup(user) ==
    /\ Send
    /\ LET err == RegisterCheck(user)
       IN  IF err # None
           THEN /\ resp' = Raise("register", err)
                /\ UNCHANGED frames
           ELSE /\ \E salt \in Salts :
                    frames' = Suspend([at |-> "reg_insert", user |-> user,
                                       salt |-> salt, created_at |-> now])
                /\ resp' = NoResp
    /\ UNCHANGED <<users, ntok, now, signedOut, live, order, raced>>

(* create_user_doc's insert_one and the rest of register. The unique index *)
(* rejects a second document of a username with DuplicateKeyError, which   *)
(* nothing catches: the framework answers 500.                             *)
RegisterInsert(f) ==
    /\ f.at = "reg_insert"
    /\ LET doc == NewUserDoc(Len(users) + 1, f.user, f.salt, f.created_at)
       IN  IF UniqueIndexAllows(users, doc)
           THEN /\ users' = Append(users, doc)
                /\ order' = Append(order, <<>>)
                /\ resp' = Reply("register", 201, UserOut(doc, Get(doc, "logged_in")))
           ELSE /\ resp' = Reply("register", 500, Detail("Internal Server Error"))
                /\ UNCHANGED <<users, order>>
    /\ frames' = Resume(f)
    /\ UNCHANGED <<nreq, ntok, now, signedOut, live, raced>>

\* login telling an unknown username from a wrong password
LoginCheck_Enumerable(body) ==
    LET user_doc == get_user_doc_by_username(body.username)
    IN  IF user_doc = None
        THEN Some(HTTPException(404, "User not found"))
        ELSE LET hashed == Get(The(user_doc), "hashed_password")
             IN  IF hashed = None \/ ~verify_password(body.password, The(hashed))
                 THEN Some(HTTPException(401, "Incorrect username or password"))
                 ELSE IF IsDisabled(The(user_doc))
                      THEN Some(HTTPException(403, "User disabled"))
                      ELSE None

\* login testing the disabled flag before the credentials
LoginCheck_DisabledFirst(body) ==
    LET user_doc == get_user_doc_by_username(body.username)
    IN  IF user_doc = None
        THEN Some(HTTPException(401, "Incorrect username or password"))
        ELSE IF IsDisabled(The(user_doc))
        THEN Some(HTTPException(403, "User disabled"))
        ELSE LET hashed == Get(The(user_doc), "hashed_password")
             IN  IF hashed = None \/ ~verify_password(body.password, The(hashed))
                 THEN Some(HTTPException(401, "Incorrect username or password"))
                 ELSE None

\* login's checks on the looked-up document: the error raised, None to go on
LoginCheck(body) ==
    LET user_doc == get_user_doc_by_username(body.username)
    IN  IF user_doc = None
        THEN Some(HTTPException(401, "Incorrect username or password"))
        ELSE LET hashed == Get(The(user_doc), "hashed_password")
             IN  IF hashed = None \/ ~verify_password(body.password, The(hashed))
                 THEN Some(HTTPException(401, "Incorrect username or password"))
                 ELSE IF IsDisabled(The(user_doc))
                      THEN Some(HTTPException(403, "User disabled"))
                      ELSE None

(* a login that ends the user's session when it refuses the credentials *)
LoginLookup_EndsSession(body) ==
    /\ Send
    /\ LET err == LoginCheck(body)
           user_doc == get_user_doc_by_username(body.username)
       IN  IF err # None
           THEN /\ resp' = Raise("login", err)
                /\ users' = IF user_doc = None THEN users
                             ELSE UpdateOne(users, The(user_doc)._id,
                                            [logged_in |-> FALSE],
                                            {"session_token", "session_expires_at"})
                /\ UNCHANGED <<frames, ntok>>
           ELSE /\ ntok' = ntok + 1
                /\ frames' = Suspend(
                       [at |-> "login_update",
                        _id |-> The(user_doc)._id,
                        token |-> Uuid4Hex(ntok + 1),
                        expires_at |-> now + SESSION_TOKEN_TTL_DAYS])
                /\ resp' = NoResp
                /\ UNCHANGED users
    /\ UNCHANGED <<now, signedOut, live, order, raced>>

(* login, up to its await on update_one *)
LoginLookup(body) ==
    /\ Send
    /\ LET err == LoginCheck(body)
       IN  IF err # None
           THEN /\ resp' = Raise("login", err)
                /\ UNCHANGED <<frames, ntok>>
           ELSE /\ ntok' = ntok + 1
                /\ frames' = Suspend(
                       [at |-> "login_update",
                        _id |-> The(get_user_doc_by_username(body.username))._id,
                        token |-> Uuid4Hex(ntok + 1),
                        expires_at |-> now + SESSION_TOKEN_TTL_DAYS])
                /\ resp' = NoResp
    /\ UNCHANGED <<users, now, signedOut, live, order, raced>>

\* a login update that stores the token and forgets the flag
LoginSet_NoFlag(token, expires_at) ==
    [session_token |-> Some(token), session_expires_at |-> Some(expires_at)]

\* a login that re-enables the account
LoginSet_ClearsDisabled(token, expires_at) ==
    [logged_in |-> TRUE, session_token |-> Some(token),
     session_expires_at |-> Some(expires_at), disabled |-> FALSE]

\* a login that stores no expiry
LoginSet_NoExpiry(token, expires_at) ==
    [logged_in |-> TRUE, session_token |-> Some(token)]

\* the $set of login's update_one
LoginSet(token, expires_at) ==
    [logged_in |-> TRUE, session_token |-> Some(token),
     session_expires_at |-> Some(expires_at)]

(* login's update_one and its TokenOut *)
LoginUpdate(f) ==
    /\ f.at = "login_update"
    /\ LET stored == users[f._id]
           others == {g \in BagToSet(Resume(f)) : g.at = "login_update" /\ g._id = f._id}
       IN  /\ users' = UpdateOne(users, f._id, LoginSet(f.token, f.expires_at), {})
           /\ resp' = Reply("login", 200,
                            [session_token |-> f.token, expires_at |-> Some(f.expires_at)])
           /\ order' = [order EXCEPT ![f._id] = Append(@, f.token)]
           /\ live' = LiveOfOthers(stored.username)
                        \cup (IF stored.disabled THEN {} ELSE {<<f.token, stored.username>>})
           /\ raced' = raced \cup {<<f.token, g.token>> : g \in others}
    /\ frames' = Resume(f)
    /\ UNCHANGED <<nreq, ntok, now, signedOut>>

\* header checks that let an empty token through
HeaderCheck_AllowsEmptyToken(authorization, malformed) ==
    IF authorization = None \/ authorization = Some(<<>>)
    THEN Some(HTTPException(401, "Missing Authorization header"))
    ELSE LET parts == Partition(The(authorization))
         IN  IF Lower(parts[1]) # "session"
             THEN Some(HTTPException(401, malformed))
             ELSE None

\* The Authorization header checks signout and require_session share: the
\* error raised, None when the header is "Session <token>"
HeaderCheck(authorization, malformed) ==
    IF authorization = None \/ authorization = Some(<<>>)
    THEN Some(HTTPException(401, "Missing Authorization header"))
    ELSE LET parts == Partition(The(authorization))
         IN  IF Lower(parts[1]) # "session" \/ parts[3] = ""
             THEN Some(HTTPException(401, malformed))
             ELSE None

\* the token of scheme, _, token = authorization.partition(" ")
HeaderToken(authorization) == Partition(The(authorization))[3]

\* signout's checks: the error raised, None to go on to the update
SignoutCheck(authorization) ==
    LET bad == HeaderCheck(authorization,
                   "Invalid authorization header (expected 'Session <token>')")
    IN  IF bad # None THEN bad
        ELSE IF get_user_doc_by_token(HeaderToken(authorization)) = None
             THEN Some(HTTPException(401, "Invalid session token"))
             ELSE None

(* signout, up to its await on update_one *)
SignoutLookup(authorization) ==
    /\ Send
    /\ LET err == SignoutCheck(authorization)
       IN  IF err # None
           THEN /\ resp' = Raise("signout", err)
                /\ UNCHANGED frames
           ELSE /\ frames' = Suspend(
                       [at |-> "signout_update",
                        token |-> HeaderToken(authorization),
                        _id |-> The(get_user_doc_by_token(HeaderToken(authorization)))._id])
                /\ resp' = NoResp
    /\ UNCHANGED <<users, ntok, now, signedOut, live, order, raced>>

\* a signout that leaves logged_in as it is
SignoutSet_KeepsFlag == [logged_in |-> TRUE]
\* a signout that clears the flag and the expiry and keeps the token
SignoutUnset_KeepsToken == {"session_expires_at"}
\* a signout that removes the token and keeps the expiry
SignoutUnset_KeepsExpiry == {"session_token"}

\* the $set and $unset of signout's update_one
SignoutSet == [logged_in |-> FALSE]
SignoutUnset == {"session_token", "session_expires_at"}

(* signout's update_one and its reply *)
SignoutUpdate(f) ==
    /\ f.at = "signout_update"
    /\ users' = UpdateOne(users, f._id, SignoutSet, SignoutUnset)
    /\ resp' = Reply("signout", 200, Detail("Signed out"))
    /\ signedOut' = signedOut \cup {f.token}
    /\ live' = LiveOfOthers(users[f._id].username)
    /\ frames' = Resume(f)
    /\ UNCHANGED <<nreq, ntok, now, order, raced>>

\* require_session refusing a session past its session_expires_at
require_session_ChecksExpiry(authorization) ==
    LET bad == HeaderCheck(authorization, "Invalid authorization header")
    IN  IF bad # None THEN Reply("protected", The(bad).status, Detail(The(bad).detail))
        ELSE LET user_doc == get_user_doc_by_token(HeaderToken(authorization))
             IN  IF user_doc = None
                 THEN Reply("protected", 401, Detail("Invalid session token"))
                 ELSE IF Get(The(user_doc), "logged_in") # TRUE
                 THEN Reply("protected", 401,
                            Detail("Session not active (user not logged in)"))
                 ELSE IF IsDisabled(The(user_doc))
                 THEN Reply("protected", 403, Detail("User disabled"))
                 ELSE IF \E e \in Get(The(user_doc), "session_expires_at") : now > e
                 THEN Reply("protected", 401, Detail("Session expired"))
                 ELSE Reply("protected", 200, UserOut(The(user_doc), TRUE))

\* require_session on the store as it is: the HTTPException raised, or the
\* UserOut returned, with status 200
require_session(authorization) ==
    LET bad == HeaderCheck(authorization, "Invalid authorization header")
    IN  IF bad # None THEN Reply("protected", The(bad).status, Detail(The(bad).detail))
        ELSE LET user_doc == get_user_doc_by_token(HeaderToken(authorization))
             IN  IF user_doc = None
                 THEN Reply("protected", 401, Detail("Invalid session token"))
                 ELSE IF Get(The(user_doc), "logged_in") # TRUE
                 THEN Reply("protected", 401,
                            Detail("Session not active (user not logged in)"))
                 ELSE IF IsDisabled(The(user_doc))
                 THEN Reply("protected", 403, Detail("User disabled"))
                 ELSE Reply("protected", 200, UserOut(The(user_doc), TRUE))

(* GET /protected: require_session, its one await, and the route's reply *)
Protected(authorization) ==
    /\ Send
    /\ resp' = require_session(authorization)
    /\ UNCHANGED <<users, frames, ntok, now, signedOut, live, order, raced>>

(* The disabled flag is written by no handler: an operator sets it in the  *)
(* store, at any moment between two store calls of the handlers.           *)
DisableUser(id) ==
    /\ users[id].disabled = FALSE
    /\ users' = UpdateOne(users, id, [disabled |-> TRUE], {})
    /\ live' = LiveOfOthers(users[id].username)
    /\ resp' = NoResp
    /\ UNCHANGED <<frames, nreq, ntok, now, signedOut, order, raced>>

TypeOK ==
    /\ nreq \in 0..MaxRequests
    /\ ntok \in 0..MaxRequests
    /\ now \in Nat
    /\ \A f \in Frames : f.at \in {"reg_insert", "login_update", "signout_update"}

Init ==
    /\ users = <<>>
    /\ frames = EmptyBag
    /\ nreq = 0
    /\ ntok = 0
    /\ now = 0
    /\ resp = NoResp
    /\ signedOut = {}
    /\ live = {}
    /\ order = <<>>
    /\ raced = {}

Next ==
    \/ \E user \in RegisterIns : RegisterLookup(user)
    \/ \E f \in Frames : RegisterInsert(f)
    \/ \E body \in LoginIns : LoginLookup(body)
    \/ \E f \in Frames : LoginUpdate(f)
    \/ \E authorization \in Headers : SignoutLookup(authorization)
    \/ \E f \in Frames : SignoutUpdate(f)
    \/ \E authorization \in Headers : Protected(authorization)
    \/ \E id \in Ids : DisableUser(id)

Spec == Init /\ [][Next]_vars

(* Time passes: the clock jumps past a whole session lifetime, so that a   *)
(* session stored before the jump is past its session_expires_at after it. *)
(* A jump takes the place of one request in the length of a run.           *)
Tick ==
    /\ Send
    /\ now < MaxTicks * (SESSION_TOKEN_TTL_DAYS + 1)
    /\ now' = now + SESSION_TOKEN_TTL_DAYS + 1
    /\ resp' = NoResp
    /\ UNCHANGED <<users, frames, ntok, signedOut, live, order, raced>>

NextClock ==
    \/ Next
    \/ Tick

SpecClock == Init /\ [][NextClock]_vars

(* ------------------------------- claims ------------------------------- *)
InvalidSession == Reply("protected", 401, Detail("Invalid session token"))
SessionInactive == Reply("protected", 401, Detail("Session not active (user not logged in)"))
UserDisabled == Reply("protected", 403, Detail("User disabled"))

\* the tokens login stored for the document id
StoredFor(id) == {order[id][i] : i \in 1..Len(order[id])}
\* the document id holds the token
Holds(id, token) == Get(users[id], "session_token") = Some(token)

\* C1, as stated: after a successful signout with token t, protected access
\* with t fails with "Session not active" (the token still matches a record
\* whose logged_in is false).
C1_SessionInactiveAfterSignout ==
    \A t \in signedOut : require_session(Session(t)) = SessionInactive

\* C1, amended: after a successful signout with token t, protected access
\* with t fails with "Invalid session token": the signout removed the
\* session_token field, so t matches no record.
C1_InvalidSessionAfterSignout ==
    \A t \in signedOut :
        /\ require_session(Session(t)) = InvalidSession
        /\ \A id \in Ids : ~Holds(id, t)

\* a signout with t succeeded and the protected access that followed was refused
C1_Witness ==
    \E t \in signedOut :
        /\ resp = require_session(Session(t))
        /\ resp.status = 401

\* C2: login with the correct password of a registered, non-disabled user
\* passes login's checks; the token a successful login returns is the one
\* stored; and while no later login, signout or disabling of that user has
\* happened, protected access with it returns 200 with that user's username
\* and logged_in = TRUE.
C2_LoginTokenAuthenticates ==
    /\ \A body \in LoginIns :
          (\E id \in Ids :
              /\ users[id].username = body.username
              /\ verify_password(body.password, The(users[id].hashed_password))
              /\ ~users[id].disabled)
          => LoginCheck(body) = None
    /\ (resp.op = "login" /\ resp.status = 200) =>
          \E id \in Ids :
              /\ Holds(id, resp.body.session_token)
              /\ ~users[id].disabled => <<resp.body.session_token, users[id].username>> \in live
    /\ \A p \in live :
          LET r == require_session(Session(p[1]))
          IN  /\ r.status = 200
              /\ r.body.username = p[2]
              /\ r.body.logged_in = TRUE

\* a login returned a token and protected access with it has just succeeded
C2_Witness ==
    \E p \in live :
        /\ resp = require_session(Session(p[1]))
        /\ resp.status = 200
        /\ resp.body.username = p[2]

\* C3: a user has at most one active token: every token login stored for a
\* user before the last one fails protected access with "Invalid session
\* token", the last one succeeds (while no signout or disabling followed),
\* and no two tokens authenticate as the same user.
C3_OneActiveToken ==
    /\ \A id \in Ids : \A i \in 1..Len(order[id]) :
          IF i < Len(order[id])
          THEN require_session(Session(order[id][i])) = InvalidSession
          ELSE <<order[id][i], users[id].username>> \in live
                  => require_session(Session(order[id][i])).status = 200
    /\ \A t1 \in Issued, t2 \in Issued :
          LET r1 == require_session(Session(t1))
              r2 == require_session(Session(t2))
          IN  (r1.status = 200 /\ r2.status = 200 /\ r1.body.id = r2.body.id)
                  => t1 = t2

\* two logins of one user one after the other, then protected access with
\* the first token, refused, while the second token is live
C3_Witness ==
    \E id \in Ids :
        /\ Len(order[id]) = 2
        /\ raced = {}
        /\ <<order[id][2], users[id].username>> \in live
        /\ resp = require_session(Session(order[id][1]))
        /\ resp = InvalidSession

C5_TokenIffLoggedIn ==
    \A id \in Ids :
        (Get(users[id], "session_token") # None) <=> (Get(users[id], "logged_in") = TRUE)

\* a record a signout has cleared (logged_in false, token field removed)
\* beside a record a login has filled (logged_in true, token stored)
C5_Witness ==
    /\ \E id \in Ids :
          /\ "session_token" \notin DOMAIN users[id]
          /\ users[id].logged_in = FALSE
    /\ \E id \in Ids : users[id].logged_in /\ Get(users[id], "session_token") # None

\* the username has a record
Registered(username) == \E id \in Ids : users[id].username = username

\* a register of a username that has a record is refused with 400
C6_Refused ==
    \A user \in RegisterIns :
        Registered(user.username)
            => RegisterCheck(user) = Some(HTTPException(400, "Username already exists"))
\* a step that refuses a register changes no record
C6_Untouched ==
    (resp'.op = "register" /\ resp'.status = 400) => users' = users

\* C6: registering a username that already has a record is refused with
\* 400 "Username already exists", and a register refused so leaves every
\* record (hashed password, full name, disabled, logged_in, session token,
\* expiry, created_at) as it was.
C6_DuplicateRegisterRefused == []C6_Refused /\ [][C6_Untouched]_vars

\* a register of a username that has a record has just been refused
C6_Witness ==
    /\ resp = Reply("register", 400, Detail("Username already exists"))
    /\ Len(users) >= 1

\* C7, as stated: when register requests of one username interleave, the
\* store never holds two records of that username, one request creates the
\* record, and every other one fails with the 400 "Username already exists"
\* of a sequential duplicate registration.
C7_RaceLoserGetsDuplicateUsername ==
    /\ \A i \in Ids, j \in Ids : users[i].username = users[j].username => i = j
    /\ (resp.op = "register" /\ resp.status # 201)
          => resp = Reply("register", 400, Detail("Username already exists"))

\* a login for a username without a record, or with a password whose hash
\* is not the stored one, is refused with 401
C8_Refused ==
    \A body \in LoginIns :
        (\/ ~Registered(body.username)
         \/ \E id \in Ids :
              /\ users[id].username = body.username
              /\ users[id].hashed_password
                    # Some(hash_password(body.password, The(users[id].hashed_password).salt)))
            => LoginCheck(body) = Some(HTTPException(401, "Incorrect username or password"))
\* a step that refuses a login with 401 changes no record
C8_Untouched ==
    (resp'.op = "login" /\ resp'.status = 401) => users' = users

\* C8: login with a wrong password for an existing user and login for a
\* username without a record are both refused with the same error, 401
\* "Incorrect username or password", and neither changes any record.
C8_SameErrorForBadCredentials == []C8_Refused /\ [][C8_Untouched]_vars

\* with every username registered a login has just been refused with 401 (a
\* wrong password), and so would a login for a username without a record be
C8_Witness ==
    /\ \A username \in Usernames : Registered(username)
    /\ resp = Reply("login", 401, Detail("Incorrect username or password"))

\* C9: two logins of one user running concurrently: once both updates are
\* done, the token stored first fails protected access with "Invalid session
\* token" and the token stored last authenticates (while no signout or
\* disabling followed).
C9_LastWriteWins ==
    \A p \in raced : \A id \in Ids :
        (p[1] \in StoredFor(id) /\ p[2] \in StoredFor(id)) =>
            /\ require_session(Session(p[1])) = InvalidSession
            /\ <<p[2], users[id].username>> \in live
                  => require_session(Session(p[2])).status = 200

\* both concurrent logins are done, and protected access has just been
\* refused for the token stored first while the one stored last is live
C9_Witness ==
    \E p \in raced : \E id \in Ids :
        /\ p[1] \in StoredFor(id) /\ p[2] \in StoredFor(id)
        /\ frames = EmptyBag
        /\ <<p[2], users[id].username>> \in live
        /\ resp = require_session(Session(p[1]))
        /\ resp.op = "protected"

\* signout cleared the document: logged_in false, no token, no expiry
Cleared(doc) ==
    /\ doc.logged_in = FALSE
    /\ "session_token" \notin DOMAIN doc
    /\ "session_expires_at" \notin DOMAIN doc

\* a signout goes on to its update exactly when its token matches a record,
\* and is refused with 401 "Invalid session token" otherwise
C10_Decided ==
    \A t \in Presentable \ {""} :
        IF \E id \in Ids : Holds(id, t)
        THEN SignoutCheck(Session(t)) = None
        ELSE SignoutCheck(Session(t)) = Some(HTTPException(401, "Invalid session token"))
\* the update of a suspended signout leaves its record cleared
C10_Clears ==
    \A f \in Frames :
        (f.at = "signout_update" /\ frames' = Resume(f) /\ resp'.op = "signout")
            => Cleared(users'[f._id])

\* C10: a signout whose token matches a record goes on to its update whatever
\* the record's disabled flag and logged_in value, and the update leaves the
\* record with logged_in false and without session_token and
\* session_expires_at; a signout whose token matches no record is refused
\* with 401 "Invalid session token".
C10_SignoutClears == []C10_Decided /\ [][C10_Clears]_vars

\* a disabled user's signout has just cleared the record
C10_Witness ==
    /\ resp = Reply("signout", 200, Detail("Signed out"))
    /\ Len(users) = 1
    /\ users[1].disabled
    /\ Cleared(users[1])

\* C11: token expiry is not enforced: protected access with a token that
\* matches a logged-in, non-disabled record returns 200 with that record's
\* public view at any time, also when the clock is past the record's
\* session_expires_at.
C11_ExpiryNotEnforced ==
    \A id \in Ids : \A t \in Issued :
        (Holds(id, t) /\ users[id].logged_in /\ ~users[id].disabled)
            => require_session(Session(t)) = Reply("protected", 200, UserOut(users[id], TRUE))

\* protected access has just succeeded with a token whose record's
\* session_expires_at lies before the current time
C11_Witness ==
    \E id \in Ids : \E t \in Issued :
        /\ Holds(id, t)
        /\ \E e \in Get(users[id], "session_expires_at") : now > e
        /\ resp = require_session(Session(t))
        /\ resp.status = 200

\* a step that answers a register with 201 has added one record, of a
\* username without a record before, in the Anonymous state, and answers
\* with its public view alone
C12_Created ==
    (resp'.op = "register" /\ resp'.status = 201) =>
        /\ Len(users') = Len(users) + 1
        /\ SubSeq(users', 1, Len(users)) = users
        /\ LET doc == users'[Len(users')]
           IN  /\ ~Registered(doc.username)
               /\ doc.logged_in = FALSE
               /\ doc.session_token = None
               /\ doc.session_expires_at = None
               /\ doc.disabled = FALSE
               /\ resp'.body = [id |-> doc._id, username |-> doc.username,
                                full_name |-> doc.full_name, logged_in |-> FALSE]

\* no header passes require_session or signout's checks as a user for whom
\* no login has stored a token yet
C12_NoSessionBeforeLogin ==
    \A id \in Ids : order[id] = <<>> =>
        \A authorization \in Headers :
            /\ require_session(authorization).status = 200
                  => require_session(authorization).body.id # id
            /\ SignoutCheck(authorization) = None
                  => The(get_user_doc_by_token(HeaderToken(authorization)))._id # id

\* C12: a successful register of a new username creates exactly one record,
\* in the Anonymous state (logged_in false, no session token, no expiry,
\* disabled false), and returns the public view with logged_in = false and
\* neither the password nor its hash; protected access and signout cannot
\* succeed for that user until a login has stored a token for it.
C12_RegisterCreatesAnonymous == []C12_NoSessionBeforeLogin /\ [][C12_Created]_vars

\* a second user has just been registered, Anonymous, beside a logged-in one
C12_Witness ==
    /\ Len(users) = 2
    /\ resp = Reply("register", 201, UserOut(users[2], FALSE))
    /\ order[2] = <<>>
    /\ users[1].logged_in

\* the update of a suspended signout removes no token but the one it presented
C13_Step ==
    \A f \in Frames :
        (f.at = "signout_update" /\ frames' = Resume(f) /\ resp'.op = "signout") =>
            \A id \in Ids : \A t \in Issued :
                (Holds(id, t) /\ t # f.token)
                    => Get(users'[id], "session_token") = Some(t)

\* C13, as stated: a signout that presented token t invalidates only the
\* session of t: under any interleaving with logins of the same user, its
\* update never clears a different token that a login stored after the
\* signout looked its user up.
C13_SignoutClearsOnlyItsToken == [][C13_Step]_vars

\* a step that answers a request with an error changes no record
C14_Step ==
    (resp'.op # "none" /\ resp'.status >= 400) => users' = users

\* C14: every request that ends in an error (register, login, signout or
\* protected access, whatever the error) leaves every record of the store
\* unchanged; a failed login does not end or replace an existing session.
C14_ErrorsChangeNothing == [][C14_Step]_vars

\* a login of the one registered user, who holds a session, has just been
\* refused, and the session is still stored
C14_Witness ==
    /\ Len(users) = 1
    /\ resp = Reply("login", 403, Detail("User disabled"))
    /\ users[1].logged_in
    /\ Get(users[1], "session_token") # None

\* the header reads "<scheme> <token>" with the scheme "session" in any case
\* and a token that is not empty
WellFormed(authorization) ==
    /\ authorization # None
    /\ Len(The(authorization)) = 3
    /\ The(authorization)[1] \in {"Session", "SESSION"}
    /\ The(authorization)[2] = " "
    /\ The(authorization)[3] # ""

\* the records that hold the token of a well-formed header
Holders(authorization) == {id \in Ids : Holds(id, The(authorization)[3])}

\* what login and protected access answer, check by check in the order of
\* the handlers
C15_Order ==
    /\ \A body \in LoginIns : \A id \in Ids :
          (users[id].username = body.username /\ users[id].disabled) =>
              LoginCheck(body) =
                  IF users[id].hashed_password
                        = Some(hash_password(body.password,
                                             The(users[id].hashed_password).salt))
                  THEN Some(HTTPException(403, "User disabled"))
                  ELSE Some(HTTPException(401, "Incorrect username or password"))
    /\ \A authorization \in Headers :
          LET r == require_session(authorization)
              holders == Holders(authorization)
          IN  IF authorization = None
              THEN r = Reply("protected", 401, Detail("Missing Authorization header"))
              ELSE IF ~WellFormed(authorization)
              THEN r = Reply("protected", 401, Detail("Invalid authorization header"))
              ELSE IF holders = {}
              THEN r = InvalidSession
              ELSE IF \E id \in holders : ~users[id].logged_in
              THEN r = SessionInactive
              ELSE IF \E id \in holders : users[id].disabled
              THEN r = UserDisabled
              ELSE r.status = 200

\* C15: error precedence is fixed. In login a disabled user with a wrong
\* password gets 401 "Incorrect username or password" and only a disabled
\* user with the correct password gets 403 "User disabled". In protected
\* access the first failing check decides, in the order header shape, token
\* lookup ("Invalid session token"), logged_in ("Session not active"),
\* disabled ("User disabled").
C15_ErrorPrecedence == []C15_Order

\* every username is registered and disabled, and a login (with a wrong
\* password, then) has just been refused with 401
C15_Witness ==
    /\ \A username \in Usernames : Registered(username)
    /\ \A id \in Ids : users[id].disabled
    /\ resp = Reply("login", 401, Detail("Incorrect username or password"))

\* what signout and protected access answer to each header, by its shape
C16_HeaderChecks ==
    /\ \A authorization \in Headers :
          LET r == require_session(authorization)
              s == SignoutCheck(authorization)
              header_errors ==
                  {"Missing Authorization header", "Invalid authorization header",
                   "Invalid authorization header (expected 'Session <token>')"}
          IN  IF authorization = None
              THEN /\ r = Reply("protected", 401, Detail("Missing Authorization header"))
                   /\ s = Some(HTTPException(401, "Missing Authorization header"))
              ELSE IF ~WellFormed(authorization)
              THEN /\ r = Reply("protected", 401, Detail("Invalid authorization header"))
                   /\ s = Some(HTTPException(401,
                              "Invalid authorization header (expected 'Session <token>')"))
              ELSE /\ IF r.status = 200
                      THEN Get(users[r.body.id], "session_token") # None
                      ELSE r.body.detail \notin header_errors
                   /\ IF s = None
                      THEN Get(The(get_user_doc_by_token(HeaderToken(authorization))),
                               "session_token") # None
                      ELSE The(s).detail \notin header_errors
    /\ get_user_doc_by_token("") = None

\* C16: a signout or protected-access request whose header is absent, has a
\* scheme other than "session" (in any case) or has an empty token part gets
\* the missing or malformed header error, whatever the store holds, and a
\* well-formed header never does; an empty token is never looked up, and no
\* header is matched with a record whose session_token is null or absent.
C16_MalformedHeaderRefused == []C16_HeaderChecks

\* beside a record whose session_token is null and one whose session_token
\* was removed, a protected access has just been refused for its header
C16_Witness ==
    /\ \E id \in Ids : "session_token" \notin DOMAIN users[id]
    /\ \E id \in Ids : "session_token" \in DOMAIN users[id] /\ users[id].session_token = None
    /\ resp = Reply("protected", 401, Detail("Invalid authorization header"))

\* a login stored the token once and no record holds it now: a signout
\* removed it or a later login of the same user overwrote it
Dead(token) ==
    /\ \E id \in Ids : token \in StoredFor(id)
    /\ \A id \in Ids : ~Holds(id, token)

\* a dead token is refused by protected access and by signout
C17_Refused ==
    \A token \in Issued : Dead(token) =>
        \A scheme \in {"Session", "SESSION"} :
            /\ require_session(Some(<<scheme, " ", token>>)) = InvalidSession
            /\ SignoutCheck(Some(<<scheme, " ", token>>))
                  = Some(HTTPException(401, "Invalid session token"))

\* no step stores a dead token in any record
C17_StaysDead ==
    \A token \in Issued : Dead(token) =>
        \A id \in 1..Len(users') : Get(users'[id], "session_token") # Some(token)

\* C17: once a token has stopped being valid, by a signout or by a later
\* login of the same user overwriting it, it is refused and no later register,
\* login or signout makes any record hold it again.
C17_DeadTokenStaysDead == []C17_Refused /\ [][C17_StaysDead]_vars

\* a user signed out of a first session and holds the token of a second
\* login while the first token has just been refused
C17_Witness ==
    \E id \in Ids :
        /\ Len(order[id]) = 2
        /\ order[id][1] \in signedOut
        /\ Holds(id, order[id][2])
        /\ Dead(order[id][1])
        /\ resp = InvalidSession

\* C18: no two records hold the same non-null session_token; a token lookup
\* matches at most one record, and a token login stored for one user
\* authenticates as, and signs out, that user only.
C18_TokenIdentifiesOneUser ==
    /\ \A i, j \in Ids :
          (i # j /\ Get(users[i], "session_token") # None)
              => Get(users[i], "session_token") # Get(users[j], "session_token")
    /\ \A token \in Issued :
          /\ Cardinality({id \in Ids : Holds(id, token)}) <= 1
          /\ \A id \in Ids : token \in StoredFor(id) =>
                /\ require_session(Session(token)).status = 200
                      => require_session(Session(token)).body.id = id
                /\ SignoutCheck(Session(token)) = None
                      => The(get_user_doc_by_token(token))._id = id
    /\ \A f \in Frames : f.at = "signout_update" => f.token \in StoredFor(f._id)

\* two users each hold a token and one of them has just been authenticated
C18_Witness ==
    /\ \E i, j \in Ids :
          /\ i # j
          /\ Get(users[i], "session_token") # None
          /\ Get(users[j], "session_token") # None
    /\ resp.op = "protected"
    /\ resp.status = 200

\* the fields login and signout leave alone
FrameFields == {"_id", "username", "hashed_password", "full_name", "disabled", "created_at"}

\* one step of the service against the frame condition
C19_Step ==
    /\ resp'.op = "protected" => users' = users
    /\ \A f \in Frames :
          (f.at \in {"login_update", "signout_update"} /\ frames' = Resume(f)) =>
              /\ resp'.status = 200
              /\ Len(users') = Len(users)
              /\ \A id \in Ids \ {f._id} : users'[id] = users[id]
              /\ \A k \in FrameFields :
                    /\ (k \in DOMAIN users'[f._id]) = (k \in DOMAIN users[f._id])
                    /\ k \in DOMAIN users[f._id] => users'[f._id][k] = users[f._id][k]
              /\ \A k \in (DOMAIN users[f._id] \cup DOMAIN users'[f._id]) \ FrameFields :
                    k \in {"logged_in", "session_token", "session_expires_at"}

\* C19: protected access never modifies the store; a successful login or
\* signout of a user changes only that user's logged_in, session_token and
\* session_expires_at and leaves the user's other fields and every other
\* record as they were.
C19_Frame == [][C19_Step]_vars

\* a disabled user's login has just completed beside another user's record
C19_Witness ==
    /\ Len(users) = 2
    /\ resp.op = "login"
    /\ resp.status = 200
    /\ \E id \in Ids : Holds(id, resp.body.session_token) /\ users[id].disabled

\* C20: a record has a session_expires_at exactly when it has a
\* session_token, as a field and as a non-null value.
C20_ExpiryIffToken ==
    \A id \in Ids :
        /\ ("session_expires_at" \in DOMAIN users[id]) = ("session_token" \in DOMAIN users[id])
        /\ (Get(users[id], "session_expires_at") = None)
              = (Get(users[id], "session_token") = None)

\* a record with both fields null, one login has just filled and one signout
\* has emptied
C20_Witness ==
    /\ \E id \in Ids :
          /\ "session_token" \in DOMAIN users[id]
          /\ users[id].session_token = None
          /\ users[id].session_expires_at = None
    /\ \E id \in Ids : Cleared(users[id])
    /\ \E f \in Frames : f.at = "login_update"
=============================================================================
